---- MODULE Spec2Model ----
(***************************************************************************)
(* The three batch scripts of the forum-translation data preparation:      *)
(*   convert_to_jsonl_shards.py  (Sharder:    CSV -> wide JSONL shards)    *)
(*   wide_to_long_format.py      (Reshaper:   wide shards -> post shards)  *)
(*   normalize_and_clean.py      (Normalizer: posts -> normalized posts)   *)
(* Strings are sequences of one-character strings; JSON scalars are        *)
(* records [kind, chars, num] so that values of different Python types     *)
(* can be compared. Each script, and each pure function a property is      *)
(* about, has its own group of variables and its own specification; the    *)
(* groups a specification does not run stay at their idle values.          *)
(***************************************************************************)
EXTENDS Integers, Sequences, FiniteSets, TLC

VARIABLES
    \* normalize_text applied once and twice to one input
    cl_pc, cl_in, cl_once, cl_twice,
    \* load_label_map and map_label_to_nllb applied to two labels
    lb_pc, lb_raw, lb_map, lb_L1, lb_L2, lb_r1, lb_r2,
    \* the body of process_shard's loop applied to one post
    rc_pc, rc_post, rc_map, rc_keep, rc_res,
    \* build_post applied to both sides of one wide record
    bp_pc, bp_rec, bp_q, bp_r,
    \* Normalizer run (normalize_and_clean.py main and process_shard)
    nz_pc,        \* "main", "shard", "done", "warned", "aborted"
    nz_map,       \* label_map
    nz_keep,      \* args.keep_hint
    nz_nshards,   \* len(shards)
    nz_i,         \* shards finished
    nz_fin,       \* per shard, the records read from fin so far
    nz_last,      \* r, the record of the current iteration
    nz_kept, nz_empty, nz_unknown,   \* kept, skipped_empty, skipped_unknown
    nz_out,       \* per shard opened, the lines in out_dir / shard.name
    nz_stats,     \* the stats dicts returned, in order
    nz_totals,    \* totals
    \* Reshaper run (wide_to_long_format.py)
    rs_pc,        \* "loop", "file", "done", "aborted"
    rs_m,         \* m, the column map
    rs_nshards,   \* number of files in IN
    rs_i,         \* files finished
    rs_fin,       \* per file, the wide records read from fin so far
    rs_out,       \* per file opened, the lines in OUT / src.name
    count_in, count_out,
    rs_err,       \* "", "KeyError", "JSONDecodeError"
    \* Sharder run (convert_to_jsonl_shards.py)
    sh_pc,        \* "loop", "done"
    sh_src,       \* the rows of the CSV
    sh_chunk,     \* CHUNK
    sh_pos,       \* rows the reader has consumed
    sh_first,     \* the reader has not yet returned a chunk
    shard_idx,
    sh_files,     \* file name -> lines
    sh_names      \* the file names written, in order

cl_vars == <<cl_pc, cl_in, cl_once, cl_twice>>
lb_vars == <<lb_pc, lb_raw, lb_map, lb_L1, lb_L2, lb_r1, lb_r2>>
rc_vars == <<rc_pc, rc_post, rc_map, rc_keep, rc_res>>
bp_vars == <<bp_pc, bp_rec, bp_q, bp_r>>
nz_vars == <<nz_pc, nz_map, nz_keep, nz_nshards, nz_i, nz_fin, nz_last,
             nz_kept, nz_empty, nz_unknown, nz_out, nz_stats, nz_totals>>
rs_vars == <<rs_pc, rs_m, rs_nshards, rs_i, rs_fin, rs_out,
             count_in, count_out, rs_err>>
sh_vars == <<sh_pc, sh_src, sh_chunk, sh_pos, sh_first, shard_idx,
             sh_files, sh_names>>

vars == <<cl_vars, lb_vars, rc_vars, bp_vars, nz_vars, rs_vars, sh_vars>>

----------------------------------------------------------------------------
(* Characters *)

ZWSP == "u200b"      \* U+200B, zero-width space
NBSP == "xa0"        \* U+00A0, no-break space
TAB  == "\t"
LF   == "\n"

\* Python's unicode whitespace (str.strip and the regex class \s agree):
\* U+00A0 is whitespace, U+200B is not.
IsSpace(c) == c \in {" ", TAB, LF, NBSP}

\* str.lower on the characters the model uses
LowerChar(c) == CASE c = "A" -> "a"
                  [] c = "B" -> "b"
                  [] OTHER   -> c

lower(s) == [i \in 1..Len(s) |-> LowerChar(s[i])]

RECURSIVE lstrip(_)
lstrip(s) == IF s # <<>> /\ IsSpace(Head(s)) THEN lstrip(Tail(s)) ELSE s

RECURSIVE rstrip(_)
rstrip(s) == IF s # <<>> /\ IsSpace(s[Len(s)])
             THEN rstrip(SubSeq(s, 1, Len(s) - 1))
             ELSE s

\* str.strip()
strip(s) == rstrip(lstrip(s))

\* str.replace(a, b) for a one-character a
replace(s, a, b) == [i \in 1..Len(s) |-> IF s[i] = a THEN b ELSE s[i]]

RECURSIVE Flatten(_)
Flatten(ss) == IF ss = <<>> THEN <<>> ELSE Head(ss) \o Flatten(Tail(ss))

StartsWith(s, p) == Len(s) >= Len(p) /\ SubSeq(s, 1, Len(p)) = p

\* length of the maximal run of whitespace / non-whitespace at the start of s
RECURSIVE SpaceRun(_)
SpaceRun(s) == IF s # <<>> /\ IsSpace(Head(s)) THEN 1 + SpaceRun(Tail(s)) ELSE 0

RECURSIVE NonSpaceRun(_)
NonSpaceRun(s) == IF s # <<>> /\ ~IsSpace(Head(s)) THEN 1 + NonSpaceRun(Tail(s)) ELSE 0

----------------------------------------------------------------------------
(* normalize_and_clean.py: cleaning *)

HTTP  == <<"h", "t", "t", "p", ":", "/", "/">>
HTTPS == <<"h", "t", "t", "p", "s", ":", "/", "/">>
URL_TOKEN == <<"<", "U", "R", "L", ">">>

\* WS_RE.sub(" ", s) with WS_RE = \s+ : every maximal whitespace run becomes
\* one ordinary space
RECURSIVE WS_RE_sub(_)
WS_RE_sub(s) ==
    IF s = <<>> THEN <<>>
    ELSE IF IsSpace(Head(s))
         THEN <<" ">> \o WS_RE_sub(SubSeq(s, SpaceRun(s) + 1, Len(s)))
         ELSE <<Head(s)>> \o WS_RE_sub(Tail(s))

\* Length of the match of URL_RE = https?://\S+ at the start of s, 0 if none.
\* The optional "s" is taken when present; \S+ is greedy and needs one char.
URL_RE_match(s) ==
    LET scheme == IF StartsWith(s, HTTPS) THEN Len(HTTPS)
                  ELSE IF StartsWith(s, HTTP) THEN Len(HTTP)
                  ELSE 0
        rest   == SubSeq(s, scheme + 1, Len(s))
    IN  IF scheme > 0 /\ NonSpaceRun(rest) > 0
        THEN scheme + NonSpaceRun(rest)
        ELSE 0

\* URL_RE.sub("<URL>", s): leftmost non-overlapping matches, left to right
RECURSIVE URL_RE_sub(_)
URL_RE_sub(s) ==
    IF s = <<>> THEN <<>>
    ELSE LET n == URL_RE_match(s)
         IN  IF n > 0
             THEN URL_TOKEN \o URL_RE_sub(SubSeq(s, n + 1, Len(s)))
             ELSE <<Head(s)>> \o URL_RE_sub(Tail(s))

\* normalize_text with the invisible characters replaced after the whitespace
\* has been collapsed
normalize_text_reordered(txt) ==
    IF txt = <<>> THEN <<>>
    ELSE LET t1 == WS_RE_sub(strip(txt))
             t2 == replace(replace(t1, ZWSP, " "), NBSP, " ")
         IN  URL_RE_sub(t2)

\* normalize_text without the whitespace collapse
normalize_text_no_collapse(txt) ==
    IF txt = <<>> THEN <<>>
    ELSE URL_RE_sub(strip(replace(replace(txt, ZWSP, " "), NBSP, " ")))

\* normalize_text(txt) for a str txt
normalize_text(txt) ==
    IF txt = <<>> THEN <<>>
    ELSE LET t1 == replace(replace(txt, ZWSP, " "), NBSP, " ")
             t2 == strip(t1)
             t3 == WS_RE_sub(t2)
         IN  URL_RE_sub(t3)

----------------------------------------------------------------------------
(* Bounded inputs: texts built from chunks *)

MaxChunks == 5

Chunks == {HTTP, HTTPS, <<"a">>, <<".">>, <<" ">>, <<TAB>>, <<ZWSP>>, <<NBSP>>}

ChunkSeqs(n) == UNION {[1..k -> Chunks] : k \in 0..n}

Texts == {Flatten(cs) : cs \in ChunkSeqs(MaxChunks)}

----------------------------------------------------------------------------
(* JSON scalars as Python sees them after ujson.loads / json.load *)

None     == [kind |-> "null", chars |-> <<>>, num |-> 0]
StrV(s)  == [kind |-> "str",  chars |-> s,    num |-> 0]
IntV(n)  == [kind |-> "int",  chars |-> <<>>, num |-> n]
BoolV(b) == [kind |-> "bool", chars |-> <<>>, num |-> IF b THEN 1 ELSE 0]

\* Python truthiness: "not v" is ~Truthy(v)
Truthy(v) == CASE v.kind = "null" -> FALSE
               [] v.kind = "str"  -> v.chars # <<>>
               [] v.kind = "int"  -> v.num # 0
               [] v.kind = "bool" -> v.num # 0

DigitChar(d) == <<"0", "1", "2", "3", "4", "5", "6", "7", "8", "9">>[d + 1]

RECURSIVE Digits(_)
Digits(n) == IF n < 10 THEN <<DigitChar(n)>>
             ELSE Digits(n \div 10) \o <<DigitChar(n % 10)>>

\* Python str(v)
str(v) == CASE v.kind = "str"  -> v.chars
            [] v.kind = "int"  -> Digits(v.num)
            [] v.kind = "bool" -> IF v.num # 0 THEN <<"T", "r", "u", "e">>
                                  ELSE <<"F", "a", "l", "s", "e">>
            [] v.kind = "null" -> <<"N", "o", "n", "e">>

\* fout.write for each of the lines, with the file restarted at each write
fwrite_overwrite(file, lines) == lines

\* fout.write for each of the lines: they are appended to the open file
fwrite(file, lines) == file \o lines

\* dict.get(key) on a record parsed from a JSON line: None when absent
get(rec, key) == IF key \in DOMAIN rec THEN rec[key] ELSE None

----------------------------------------------------------------------------
(* normalize_and_clean.py: label map *)

\* load_label_map: the raw JSON object is a sequence of <<key, value>> pairs
\* in file order; keys are normalized, a later pair overwrites an earlier one
\* with the same normalized key.
NormKey(k) == lower(strip(k))

load_label_map(raw) ==
    LET keys == {NormKey(raw[i][1]) : i \in DOMAIN raw}
        last(k) == CHOOSE i \in DOMAIN raw :
                      /\ NormKey(raw[i][1]) = k
                      /\ \A j \in DOMAIN raw : NormKey(raw[j][1]) = k => j <= i
    IN  [k \in keys |-> raw[last(k)][2]]

\* map_label_to_nllb(label, mapping)
map_label_to_nllb(label, mapping) ==
    IF ~Truthy(label) THEN None
    ELSE LET k == lower(strip(str(label)))
         IN  IF k \in DOMAIN mapping THEN mapping[k] ELSE None

----------------------------------------------------------------------------
(* normalize_and_clean.py: regex fallback sentence splitter *)

IsTerminal(c) == c \in {".", "!", "?"}

\* SENT_RE.split(t) with SENT_RE = (?<=[.!?])\s+ ; cur is the piece being
\* collected. A match starts at a whitespace character that directly follows
\* a terminal mark and takes the whole whitespace run.
RECURSIVE SENT_RE_split(_, _)
SENT_RE_split(s, cur) ==
    IF s = <<>> THEN <<cur>>
    ELSE IF /\ IsSpace(Head(s))
            /\ cur # <<>>
            /\ IsTerminal(cur[Len(cur)])
         THEN <<cur>> \o SENT_RE_split(SubSeq(s, SpaceRun(s) + 1, Len(s)), <<>>)
         ELSE SENT_RE_split(Tail(s), Append(cur, Head(s)))

\* sep.join(parts)
RECURSIVE join(_, _)
join(sep, parts) ==
    IF parts = <<>> THEN <<>>
    ELSE IF Len(parts) = 1 THEN parts[1]
    ELSE parts[1] \o sep \o join(sep, Tail(parts))

\* [s.strip() for s in pieces if s.strip()]
RECURSIVE StripNonEmpty(_)
StripNonEmpty(pieces) ==
    IF pieces = <<>> THEN <<>>
    ELSE IF strip(Head(pieces)) # <<>>
         THEN <<strip(Head(pieces))>> \o StripNonEmpty(Tail(pieces))
         ELSE StripNonEmpty(Tail(pieces))

\* the lambda make_splitter returns when syntok is not installed
text_to_sentences(t) == join(<<LF>>, StripNonEmpty(SENT_RE_split(t, <<>>)))

----------------------------------------------------------------------------
(* normalize_and_clean.py: the body of process_shard's loop for one record *)

\* r with r[key] = val
SetField(r, key, val) ==
    [f \in DOMAIN r \cup {key} |-> IF f = key THEN val ELSE r[f]]

\* r.pop(key, None)
pop(r, key) == [f \in DOMAIN r \ {key} |-> r[f]]

\* r.get("text") or "" (the posts of a long shard hold a string or no text)
TextOf(r) == IF Truthy(get(r, "text")) THEN get(r, "text") ELSE StrV(<<>>)

\* process_record with the label looked up before the text is cleaned
process_record_label_first(r, label_map, keep_hint) ==
    LET txt  == normalize_text(TextOf(r).chars)
        lang == map_label_to_nllb(get(r, "lang_hint"), label_map)
        out1 == SetField(SetField(SetField(r, "lang", lang),
                                  "text", StrV(txt)),
                         "sents", StrV(text_to_sentences(txt)))
        out2 == IF keep_hint THEN out1 ELSE pop(out1, "lang_hint")
    IN  IF ~Truthy(lang) THEN [outcome |-> "unknown", rec |-> r]
        ELSE IF txt = <<>> THEN [outcome |-> "empty", rec |-> r]
        ELSE [outcome |-> "kept", rec |-> out2]

\* Outcome of one parsed record: "empty" and "unknown" are the two early
\* exits, "kept" carries the record that is written.
process_record(r, label_map, keep_hint) ==
    LET txt  == normalize_text(TextOf(r).chars)
        lang == map_label_to_nllb(get(r, "lang_hint"), label_map)
        out1 == SetField(SetField(SetField(r, "lang", lang),
                                  "text", StrV(txt)),
                         "sents", StrV(text_to_sentences(txt)))
        out2 == IF keep_hint THEN out1 ELSE pop(out1, "lang_hint")
    IN  IF txt = <<>> THEN [outcome |-> "empty", rec |-> r]
        ELSE IF ~Truthy(lang) THEN [outcome |-> "unknown", rec |-> r]
        ELSE [outcome |-> "kept", rec |-> out2]

----------------------------------------------------------------------------
(* wide_to_long_format.py: build_post *)

\* config/columns.json as the pipeline ships it: per side the columns of the
\* recognized keys, and the shared thread column
SideMap(p) == [content    |-> p \o "_text",
               id         |-> p \o "_id",
               created_at |-> p \o "_at",
               user_id    |-> p \o "_user",
               language   |-> p \o "_lang"]

FullMap == [question |-> SideMap("q"), response |-> SideMap("r"),
            thread_id |-> "thread"]

SideKeys == {"content", "id", "created_at", "user_id", "language"}

\* a column map without one top-level entry / without one key of one side
WithoutTop(m, k) == [x \in DOMAIN m \ {k} |-> m[x]]

WithoutSideKey(m, side, k) ==
    [x \in DOMAIN m |->
        IF x = side THEN [y \in DOMAIN m[side] \ {k} |-> m[side][y]] ELSE m[x]]

\* "not v or str(v).strip() == ''"
IsBlank(v) == ~Truthy(v) \/ strip(str(v)) = <<>>

NoPost == [id |-> <<>>, thread_id |-> None, created_at |-> None,
           author |-> None, lang_hint |-> None, text |-> <<>>, role |-> ""]

\* build_post with the same prefix for both sides
build_post_same_prefix(rec, side, m) ==
    IF side \notin DOMAIN m \/ "content" \notin DOMAIN m[side]
    THEN [status |-> "KeyError", post |-> NoPost]
    ELSE IF IsBlank(get(rec, m[side]["content"]))
    THEN [status |-> "None", post |-> NoPost]
    ELSE IF "id" \notin DOMAIN m[side]
    THEN [status |-> "KeyError", post |-> NoPost]
    ELSE IF IsBlank(get(rec, m[side]["id"]))
    THEN [status |-> "None", post |-> NoPost]
    ELSE IF "thread_id" \notin DOMAIN m \/ ~(SideKeys \subseteq DOMAIN m[side])
    THEN [status |-> "KeyError", post |-> NoPost]
    ELSE [status |-> "post",
          post |-> [id         |-> <<"q", ":">> \o str(get(rec, m[side]["id"])),
                    thread_id  |-> get(rec, m["thread_id"]),
                    created_at |-> get(rec, m[side]["created_at"]),
                    author     |-> get(rec, m[side]["user_id"]),
                    lang_hint  |-> get(rec, m[side]["language"]),
                    text       |-> str(get(rec, m[side]["content"])),
                    role       |-> side]]

\* build_post with every key of the column map looked up with .get
build_post_lenient(rec, side, m) ==
    LET s   == IF side \in DOMAIN m THEN m[side] ELSE <<>>
        col(k) == IF k \in DOMAIN s THEN s[k] ELSE "missing"
        txt == get(rec, col("content"))
        rid == get(rec, col("id"))
    IN  IF IsBlank(txt) \/ IsBlank(rid)
        THEN [status |-> "None", post |-> NoPost]
        ELSE [status |-> "post",
              post |-> [id         |-> (IF side = "question" THEN <<"q", ":">>
                                        ELSE <<"r", ":">>) \o str(rid),
                        thread_id  |-> IF "thread_id" \in DOMAIN m
                                       THEN get(rec, m["thread_id"]) ELSE None,
                        created_at |-> get(rec, col("created_at")),
                        author     |-> get(rec, col("user_id")),
                        lang_hint  |-> get(rec, col("language")),
                        text       |-> str(txt),
                        role       |-> side]]

\* build_post(rec, side) with the module-level column map m. The lookups
\* m[side], s["content"], s["id"] and those of the returned dict raise
\* KeyError in the order the code evaluates them.
build_post(rec, side, m) ==
    IF side \notin DOMAIN m
    THEN [status |-> "KeyError", post |-> NoPost]
    ELSE LET s == m[side]
         IN  IF "content" \notin DOMAIN s
             THEN [status |-> "KeyError", post |-> NoPost]
             ELSE LET txt == get(rec, s["content"])
                  IN  IF IsBlank(txt)
                      THEN [status |-> "None", post |-> NoPost]
                      ELSE IF "id" \notin DOMAIN s
                      THEN [status |-> "KeyError", post |-> NoPost]
                      ELSE LET rid == get(rec, s["id"])
                           IN  IF IsBlank(rid)
                               THEN [status |-> "None", post |-> NoPost]
                               ELSE IF \/ "thread_id" \notin DOMAIN m
                                       \/ "created_at" \notin DOMAIN s
                                       \/ "user_id" \notin DOMAIN s
                                       \/ "language" \notin DOMAIN s
                               THEN [status |-> "KeyError", post |-> NoPost]
                               ELSE [status |-> "post",
                                     post |->
                                       [id         |-> (IF side = "question"
                                                        THEN <<"q", ":">>
                                                        ELSE <<"r", ":">>)
                                                       \o str(rid),
                                        thread_id  |-> get(rec, m["thread_id"]),
                                        created_at |-> get(rec, s["created_at"]),
                                        author     |-> get(rec, s["user_id"]),
                                        lang_hint  |-> get(rec, s["language"]),
                                        text       |-> str(txt),
                                        role       |-> side]]

\* The two build_post calls of one loop iteration, question side first: the
\* posts written to fout before the iteration ends, and whether it ended
\* with a KeyError.
reshape_line(rec, m) ==
    LET q == build_post(rec, "question", m)
        r == build_post(rec, "response", m)
        qp == IF q.status = "post" THEN <<q.post>> ELSE <<>>
        rp == IF r.status = "post" THEN <<r.post>> ELSE <<>>
    IN  IF q.status = "KeyError" THEN [posts |-> <<>>, raised |-> TRUE]
        ELSE IF r.status = "KeyError" THEN [posts |-> qp, raised |-> TRUE]
        ELSE [posts |-> qp \o rp, raised |-> FALSE]

----------------------------------------------------------------------------
(* convert_to_jsonl_shards.py *)

\* ujson.dumps(r, ensure_ascii=False) + "\n": one line holding the row
dumps(r) == [line |-> r]

\* f"{n:05d}": at least five digits, zero-padded on the left
RECURSIVE Zeros(_)
Zeros(k) == IF k <= 0 THEN <<>> ELSE <<"0">> \o Zeros(k - 1)

\* the index formatted without its zero padding
Format05d_unpadded(n) == Digits(n)

Format05d(n) == Zeros(5 - Len(Digits(n))) \o Digits(n)

\* f"shard_{shard_idx:05d}.jsonl"
ShardName(n) == <<"s", "h", "a", "r", "d", "_">> \o Format05d(n)
                \o <<".", "j", "s", "o", "n", "l">>

----------------------------------------------------------------------------
(* Specification SpecClean: cleaning a text, then cleaning the result *)

CleanIdle == cl_pc = "idle" /\ cl_in = <<>> /\ cl_once = <<>> /\ cl_twice = <<>>

InitCleanRun ==
    /\ cl_pc = "start"
    /\ cl_in \in Texts
    /\ cl_once = <<>>
    /\ cl_twice = <<>>

CleanOnce ==
    /\ cl_pc = "start"
    /\ cl_once' = normalize_text(cl_in)
    /\ cl_pc' = "once"
    /\ UNCHANGED <<cl_in, cl_twice>>
    /\ UNCHANGED <<lb_vars, rc_vars, bp_vars, nz_vars, rs_vars, sh_vars>>

CleanTwice ==
    /\ cl_pc = "once"
    /\ cl_twice' = normalize_text(cl_once)
    /\ cl_pc' = "twice"
    /\ UNCHANGED <<cl_in, cl_once>>
    /\ UNCHANGED <<lb_vars, rc_vars, bp_vars, nz_vars, rs_vars, sh_vars>>

----------------------------------------------------------------------------
(* Specification SpecLabel: loading a label map, resolving two labels *)

MaxLabelLen == 2
MaxMapEntries == 2

LabelChars == {"a", "A", " "}

LabelStrs == UNION {[1..k -> LabelChars] : k \in 0..MaxLabelLen}

\* keys as written in config/lang_map.json, and the codes they map to
RawKeys == {<<>>, <<" ">>, <<"a">>, <<"A", " ">>, <<"b">>}

LUG == StrV(<<"l", "u", "g">>)
SWH == StrV(<<"s", "w", "h">>)

\* JSON objects with distinct keys, in file order
RawMaps ==
    {raw \in UNION {[1..k -> RawKeys \X {LUG, SWH}] : k \in 0..MaxMapEntries} :
        \A i, j \in DOMAIN raw : i # j => raw[i][1] # raw[j][1]}

LabelIdle ==
    /\ lb_pc = "idle" /\ lb_raw = <<>> /\ lb_map = <<>>
    /\ lb_L1 = <<>> /\ lb_L2 = <<>> /\ lb_r1 = None /\ lb_r2 = None

InitLabelRun ==
    /\ lb_pc = "start"
    /\ lb_raw \in RawMaps
    /\ lb_map = <<>>
    /\ lb_L1 \in LabelStrs
    /\ lb_L2 \in LabelStrs
    /\ lb_r1 = None
    /\ lb_r2 = None

LoadLabelMap ==
    /\ lb_pc = "start"
    /\ lb_map' = load_label_map(lb_raw)
    /\ lb_pc' = "loaded"
    /\ UNCHANGED <<lb_raw, lb_L1, lb_L2, lb_r1, lb_r2>>
    /\ UNCHANGED <<cl_vars, rc_vars, bp_vars, nz_vars, rs_vars, sh_vars>>

ResolveLabels ==
    /\ lb_pc = "loaded"
    /\ lb_r1' = map_label_to_nllb(StrV(lb_L1), lb_map)
    /\ lb_r2' = map_label_to_nllb(StrV(lb_L2), lb_map)
    /\ lb_pc' = "resolved"
    /\ UNCHANGED <<lb_raw, lb_map, lb_L1, lb_L2>>
    /\ UNCHANGED <<cl_vars, rc_vars, bp_vars, nz_vars, rs_vars, sh_vars>>

----------------------------------------------------------------------------
(* Specification SpecRecord: one post through process_shard's loop body *)

MaxTextChunks == 4

PostTexts == {Flatten(cs) : cs \in ChunkSeqs(MaxTextChunks)}

\* lang_hint values: a known label with stray case and whitespace, a label
\* mapped to an empty code, an unknown label, empty, null
HintValues == {StrV(<<" ", "A", " ">>), StrV(<<"b">>), StrV(<<"z">>),
               StrV(<<>>), None}

\* the label map loaded from {"A ": "lug", "b": ""}
MapAB == load_label_map(<<<<<<"A", " ">>, LUG>>, <<<<"b">>, StrV(<<>>)>>>>)

\* a post as ujson.loads returns it; texts and hints hold the value of the
\* field, or nothing when the field is absent from the JSON object
MkPost(texts, hints) ==
    [f \in {"id"} \cup (IF texts = {} THEN {} ELSE {"text"})
                  \cup (IF hints = {} THEN {} ELSE {"lang_hint"}) |->
        CASE f = "id"        -> StrV(<<"q", ":", "1">>)
          [] f = "text"      -> CHOOSE v \in texts : TRUE
          [] f = "lang_hint" -> CHOOSE v \in hints : TRUE]

RecordIdle ==
    /\ rc_pc = "idle" /\ rc_post = <<>> /\ rc_map = <<>>
    /\ rc_keep = FALSE /\ rc_res = <<>>

InitRecordRun ==
    /\ rc_pc = "start"
    /\ \E t \in PostTexts :
          \/ \E h \in HintValues : rc_post = MkPost({StrV(t)}, {h})
          \/ rc_post = MkPost({StrV(t)}, {})
    /\ rc_map = MapAB
    /\ rc_keep \in BOOLEAN
    /\ rc_res = <<>>

ProcessOne ==
    /\ rc_pc = "start"
    /\ rc_res' = process_record(rc_post, rc_map, rc_keep)
    /\ rc_pc' = "done"
    /\ UNCHANGED <<rc_post, rc_map, rc_keep>>
    /\ UNCHANGED <<cl_vars, lb_vars, bp_vars, nz_vars, rs_vars, sh_vars>>

----------------------------------------------------------------------------
(* Specification SpecNorm: a run of normalize_and_clean.py *)

MaxShards == 2     \* input shard files of a run
MaxLines == 3      \* lines read in a run, over all its shards

\* the posts a line of a long shard may hold
NormPosts ==
    {MkPost({StrV(<<"a", ".", " ", " ", "b">>)}, {StrV(<<" ", "A", " ">>)}),
     MkPost({StrV(<<"a">>)}, {StrV(<<"a">>)}),
     MkPost({StrV(<<"a">>)}, {StrV(<<"z">>)}),
     MkPost({StrV(<<"a">>)}, {}),
     MkPost({StrV(<<"a">>)}, {None}),
     MkPost({StrV(<<ZWSP, " ">>)}, {StrV(<<"a">>)}),
     MkPost({StrV(<<" ">>)}, {}),
     MkPost({}, {StrV(<<>>)})}

RECURSIVE SumSeq(_)
SumSeq(s) == IF s = <<>> THEN 0 ELSE Head(s) + SumSeq(Tail(s))

\* lines read so far in the run
NzLinesRead == SumSeq([k \in DOMAIN nz_fin |-> Len(nz_fin[k])])

ZeroTotals == [kept |-> 0, skipped_empty |-> 0, skipped_unknown_label |-> 0]

\* the three counters after a record with the given outcome, with the
\* unknown-label drop not counted
tally_unknown_uncounted(c, outcome) ==
    CASE outcome = "kept"    -> [c EXCEPT !.kept = @ + 1]
      [] outcome = "empty"   -> [c EXCEPT !.skipped_empty = @ + 1]
      [] outcome = "unknown" -> c

\* the three counters after a record with the given outcome:
\* kept += 1, skipped_empty += 1 or skipped_unknown += 1
tally(c, outcome) ==
    CASE outcome = "kept"    -> [c EXCEPT !.kept = @ + 1]
      [] outcome = "empty"   -> [c EXCEPT !.skipped_empty = @ + 1]
      [] outcome = "unknown" -> [c EXCEPT !.skipped_unknown_label = @ + 1]

NormIdle ==
    /\ nz_pc = "idle" /\ nz_map = <<>> /\ nz_keep = FALSE /\ nz_nshards = 0
    /\ nz_i = 0 /\ nz_fin = <<>> /\ nz_last = <<>>
    /\ nz_kept = 0 /\ nz_empty = 0 /\ nz_unknown = 0
    /\ nz_out = <<>> /\ nz_stats = <<>> /\ nz_totals = ZeroTotals

\* main() up to the loop: arguments parsed, label map loaded, shards listed
InitNormRun ==
    /\ nz_pc = "main"
    /\ nz_map = MapAB
    /\ nz_keep \in BOOLEAN
    /\ nz_nshards \in 0..MaxShards
    /\ nz_i = 0
    /\ nz_fin = <<>>
    /\ nz_last = <<>>
    /\ nz_kept = 0 /\ nz_empty = 0 /\ nz_unknown = 0
    /\ nz_out = <<>>
    /\ nz_stats = <<>>
    /\ nz_totals = ZeroTotals

NzOthers == <<cl_vars, lb_vars, rc_vars, bp_vars, rs_vars, sh_vars>>

\* "if not shards: print warning; return"
NzNoShards ==
    /\ nz_pc = "main"
    /\ nz_nshards = 0
    /\ nz_pc' = "warned"
    /\ UNCHANGED <<nz_map, nz_keep, nz_nshards, nz_i, nz_fin, nz_last, nz_kept,
                   nz_empty, nz_unknown, nz_out, nz_stats, nz_totals>>
    /\ UNCHANGED NzOthers

\* process_shard entered: counters zeroed, fin opened, out_path opened "w"
NzOpenShard ==
    /\ nz_pc = "main"
    /\ nz_i < nz_nshards
    /\ nz_pc' = "shard"
    /\ nz_kept' = 0 /\ nz_empty' = 0 /\ nz_unknown' = 0
    /\ nz_fin' = Append(nz_fin, <<>>)
    /\ nz_out' = Append(nz_out, <<>>)
    /\ UNCHANGED <<nz_map, nz_keep, nz_nshards, nz_i, nz_last, nz_stats,
                   nz_totals>>
    /\ UNCHANGED NzOthers

\* one iteration of "for line in fin" on a line that parses to r
NzLine(r) ==
    /\ nz_pc = "shard"
    /\ NzLinesRead < MaxLines
    /\ LET res == process_record(r, nz_map, nz_keep)
           c   == tally([kept |-> nz_kept, skipped_empty |-> nz_empty,
                         skipped_unknown_label |-> nz_unknown], res.outcome)
       IN  /\ nz_last' = r
           /\ nz_fin' = [nz_fin EXCEPT ![Len(nz_fin)] = Append(@, r)]
           /\ nz_out' = IF res.outcome = "kept"
                        THEN [nz_out EXCEPT ![Len(nz_out)] = fwrite(@, <<res.rec>>)]
                        ELSE nz_out
           /\ nz_kept' = c.kept
           /\ nz_empty' = c.skipped_empty
           /\ nz_unknown' = c.skipped_unknown_label
    /\ UNCHANGED <<nz_pc, nz_map, nz_keep, nz_nshards, nz_i, nz_stats, nz_totals>>
    /\ UNCHANGED NzOthers

\* ujson.loads(line) raises on a line that does not parse: the with block
\* closes both files and the exception leaves process_shard and main
NzBadLine ==
    /\ nz_pc = "shard"
    /\ NzLinesRead < MaxLines
    /\ nz_pc' = "aborted"
    /\ UNCHANGED <<nz_map, nz_keep, nz_nshards, nz_i, nz_fin, nz_last, nz_kept,
                   nz_empty, nz_unknown, nz_out, nz_stats, nz_totals>>
    /\ UNCHANGED NzOthers

\* fin is exhausted: process_shard returns its stats, main prints the
\* per-file line and adds the stats to totals
NzFinishShard ==
    /\ nz_pc = "shard"
    /\ LET stats == [file |-> nz_i + 1, kept |-> nz_kept,
                     skipped_empty |-> nz_empty,
                     skipped_unknown_label |-> nz_unknown]
       IN  /\ nz_stats' = Append(nz_stats, stats)
           /\ nz_totals' =
                 [kept |-> nz_totals.kept + stats.kept,
                  skipped_empty |-> nz_totals.skipped_empty + stats.skipped_empty,
                  skipped_unknown_label |->
                      nz_totals.skipped_unknown_label + stats.skipped_unknown_label]
    /\ nz_i' = nz_i + 1
    /\ nz_pc' = "main"
    /\ UNCHANGED <<nz_map, nz_keep, nz_nshards, nz_fin, nz_last, nz_kept,
                   nz_empty, nz_unknown, nz_out>>
    /\ UNCHANGED NzOthers

\* the loop over shards is over: the final summary is printed
NzDone ==
    /\ nz_pc = "main"
    /\ nz_nshards > 0
    /\ nz_i = nz_nshards
    /\ nz_pc' = "done"
    /\ UNCHANGED <<nz_map, nz_keep, nz_nshards, nz_i, nz_fin, nz_last, nz_kept,
                   nz_empty, nz_unknown, nz_out, nz_stats, nz_totals>>
    /\ UNCHANGED NzOthers

NzReadLine == \E r \in NormPosts : NzLine(r)

----------------------------------------------------------------------------
(* Specification SpecReshape: a run of wide_to_long_format.py *)

MaxWideShards == 2   \* files in data/shards
MaxWideLines == 3    \* lines read in a run, over all its files

\* a wide record with the given question and response columns
Wide(qt, qi, rt, ri) ==
    [c \in {"thread", "q_lang", "r_lang"}
           \cup (IF qt = {} THEN {} ELSE {"q_text"})
           \cup (IF qi = {} THEN {} ELSE {"q_id"})
           \cup (IF rt = {} THEN {} ELSE {"r_text"})
           \cup (IF ri = {} THEN {} ELSE {"r_id"}) |->
        CASE c = "thread" -> StrV(<<"T", "1">>)
          [] c = "q_lang" -> StrV(<<"e", "n", "g">>)
          [] c = "r_lang" -> StrV(<<"l", "u", "g">>)
          [] c = "q_text" -> CHOOSE v \in qt : TRUE
          [] c = "q_id"   -> CHOOSE v \in qi : TRUE
          [] c = "r_text" -> CHOOSE v \in rt : TRUE
          [] c = "r_id"   -> CHOOSE v \in ri : TRUE]

S42 == StrV(<<"4", "2">>)
S99 == StrV(<<"9", "9">>)
TxtA == StrV(<<"H", "i", "?">>)
TxtB == StrV(<<"o", "k">>)

\* the wide records a line of a wide shard may hold
WideRecs ==
    {Wide({TxtA}, {S42}, {StrV(<<>>)}, {S99}),    \* response text empty
     Wide({TxtA}, {S42}, {TxtB}, {S42}),          \* both sides, same raw id
     Wide({TxtA}, {IntV(42)}, {TxtB}, {S99}),     \* a numeric id
     Wide({TxtA}, {IntV(0)}, {TxtB}, {IntV(7)}),  \* the id 0
     Wide({StrV(<<" ">>)}, {S42}, {}, {S99}),     \* no text on either side
     Wide({TxtA}, {}, {TxtB}, {None})}            \* no id on either side

\* config/columns.json: complete, or lacking one recognized key or one side
ColumnMaps ==
    {FullMap}
    \cup {WithoutTop(FullMap, k) : k \in {"question", "response", "thread_id"}}
    \cup {WithoutSideKey(FullMap, side, k) :
             side \in {"question", "response"}, k \in SideKeys}

RsLinesRead == SumSeq([k \in DOMAIN rs_fin |-> Len(rs_fin[k])])

ReshapeIdle ==
    /\ rs_pc = "idle" /\ rs_m = <<>> /\ rs_nshards = 0 /\ rs_i = 0
    /\ rs_fin = <<>> /\ rs_out = <<>> /\ count_in = 0 /\ count_out = 0
    /\ rs_err = ""

\* the module level up to the loop: OUT created, the column map loaded
InitReshapeRun ==
    /\ rs_pc = "loop"
    /\ rs_m \in ColumnMaps
    /\ rs_nshards \in 0..MaxWideShards
    /\ rs_i = 0
    /\ rs_fin = <<>>
    /\ rs_out = <<>>
    /\ count_in = 0
    /\ count_out = 0
    /\ rs_err = ""

RsOthers == <<cl_vars, lb_vars, rc_vars, bp_vars, nz_vars, sh_vars>>

\* next file of sorted(IN.glob("*.jsonl")): src opened, dst opened "w"
RsOpenFile ==
    /\ rs_pc = "loop"
    /\ rs_i < rs_nshards
    /\ rs_pc' = "file"
    /\ rs_fin' = Append(rs_fin, <<>>)
    /\ rs_out' = Append(rs_out, <<>>)
    /\ UNCHANGED <<rs_m, rs_nshards, rs_i, count_in, count_out, rs_err>>
    /\ UNCHANGED RsOthers

\* one iteration of "for line in fin" on a line that parses to rec
RsLine(rec) ==
    /\ rs_pc = "file"
    /\ RsLinesRead < MaxWideLines
    /\ LET res == reshape_line(rec, rs_m)
       IN  /\ rs_fin' = [rs_fin EXCEPT ![Len(rs_fin)] = Append(@, rec)]
           /\ count_in' = count_in + 1
           /\ rs_out' = [rs_out EXCEPT ![Len(rs_out)] = fwrite(@, res.posts)]
           /\ count_out' = count_out + Len(res.posts)
           /\ rs_pc' = IF res.raised THEN "aborted" ELSE "file"
           /\ rs_err' = IF res.raised THEN "KeyError" ELSE rs_err
    /\ UNCHANGED <<rs_m, rs_nshards, rs_i>>
    /\ UNCHANGED RsOthers

\* ujson.loads(line) raises: the with block closes both files and the
\* exception ends the script
RsBadLine ==
    /\ rs_pc = "file"
    /\ RsLinesRead < MaxWideLines
    /\ rs_pc' = "aborted"
    /\ rs_err' = "JSONDecodeError"
    /\ UNCHANGED <<rs_m, rs_nshards, rs_i, rs_fin, rs_out, count_in, count_out>>
    /\ UNCHANGED RsOthers

\* fin is exhausted: both files are closed, "wrote <name>" is printed
RsCloseFile ==
    /\ rs_pc = "file"
    /\ rs_i' = rs_i + 1
    /\ rs_pc' = "loop"
    /\ UNCHANGED <<rs_m, rs_nshards, rs_fin, rs_out, count_in, count_out, rs_err>>
    /\ UNCHANGED RsOthers

\* the loop over files is over: the summary line is printed
RsDone ==
    /\ rs_pc = "loop"
    /\ rs_i = rs_nshards
    /\ rs_pc' = "done"
    /\ UNCHANGED <<rs_m, rs_nshards, rs_i, rs_fin, rs_out, count_in, count_out,
                   rs_err>>
    /\ UNCHANGED RsOthers

RsReadLine == \E rec \in WideRecs : RsLine(rec)

----------------------------------------------------------------------------
(* Specification SpecBuildPost: build_post on both sides of one record *)

\* values a content or id column may hold in a wide shard
FieldValues == {None, StrV(<<>>), StrV(<<" ">>), StrV(<<"a">>), S42,
                IntV(0), IntV(42), BoolV(FALSE), BoolV(TRUE)}

\* a column is absent, or holds one of the values
FieldChoices == {{}} \cup {{v} : v \in FieldValues}

BuildPostIdle ==
    /\ bp_pc = "idle" /\ bp_rec = <<>>
    /\ bp_q = [status |-> "None", post |-> NoPost]
    /\ bp_r = [status |-> "None", post |-> NoPost]

InitBuildPostRun ==
    /\ bp_pc = "start"
    /\ \E qt, qi, rt, ri \in FieldChoices : bp_rec = Wide(qt, qi, rt, ri)
    /\ bp_q = [status |-> "None", post |-> NoPost]
    /\ bp_r = [status |-> "None", post |-> NoPost]

BuildBoth ==
    /\ bp_pc = "start"
    /\ bp_q' = build_post(bp_rec, "question", FullMap)
    /\ bp_r' = build_post(bp_rec, "response", FullMap)
    /\ bp_pc' = "built"
    /\ UNCHANGED bp_rec
    /\ UNCHANGED <<cl_vars, lb_vars, rc_vars, nz_vars, rs_vars, sh_vars>>

----------------------------------------------------------------------------
(* Specification SpecShard: a run of convert_to_jsonl_shards.py *)

MaxRows == 5        \* rows of the source CSV
MaxChunk == 3       \* largest chunk size tried

RowValues == {"x", "y"}

Sources == UNION {[1..n -> RowValues] : n \in 0..MaxRows}

Min(a, b) == IF a <= b THEN a ELSE b

ShardIdle ==
    /\ sh_pc = "idle" /\ sh_src = <<>> /\ sh_chunk = 1 /\ sh_pos = 0
    /\ sh_first = FALSE /\ shard_idx = 0 /\ sh_files = <<>> /\ sh_names = <<>>

\* the module level up to the loop: OUT created, the chunked reader opened
\* on a CSV that has its header line
InitShardRun ==
    /\ sh_pc = "loop"
    /\ sh_src \in Sources
    /\ sh_chunk \in 1..MaxChunk
    /\ sh_pos = 0
    /\ sh_first = TRUE
    /\ shard_idx = 0
    /\ sh_files = <<>>
    /\ sh_names = <<>>

\* The chunked reader of pd.read_csv: the next at most CHUNK rows. Its first
\* read of a source without data rows returns an empty frame with the header's
\* columns; every later read at the end of the data raises StopIteration.
ReaderHasChunk == sh_pos < Len(sh_src) \/ sh_first

NextChunk == SubSeq(sh_src, sh_pos + 1, Min(sh_pos + sh_chunk, Len(sh_src)))

\* dict-style assignment files[name] = lines
PutFile(files, name, lines) ==
    [n \in DOMAIN files \cup {name} |-> IF n = name THEN lines ELSE files[n]]

ShOthers == <<cl_vars, lb_vars, rc_vars, bp_vars, nz_vars, rs_vars>>

\* one iteration of "for df in reader": the chunk's rows are written to
\* shard_<idx>.jsonl, one line per row, and shard_idx is incremented
ShWriteShard ==
    /\ sh_pc = "loop"
    /\ ReaderHasChunk
    /\ LET recs == NextChunk
           out  == ShardName(shard_idx)
       IN  /\ sh_files' = PutFile(sh_files, out,
                                  [k \in 1..Len(recs) |-> dumps(recs[k])])
           /\ sh_names' = Append(sh_names, out)
           /\ sh_pos' = sh_pos + Len(recs)
    /\ sh_first' = FALSE
    /\ shard_idx' = shard_idx + 1
    /\ UNCHANGED <<sh_pc, sh_src, sh_chunk>>
    /\ UNCHANGED ShOthers

\* the reader is exhausted: the final line is printed
ShDone ==
    /\ sh_pc = "loop"
    /\ ~ReaderHasChunk
    /\ sh_pc' = "done"
    /\ UNCHANGED <<sh_src, sh_chunk, sh_pos, sh_first, shard_idx, sh_files,
                   sh_names>>
    /\ UNCHANGED ShOthers

----------------------------------------------------------------------------
(* Specifications *)

InitClean ==
    /\ InitCleanRun /\ LabelIdle /\ RecordIdle /\ BuildPostIdle
    /\ NormIdle /\ ReshapeIdle /\ ShardIdle
NextClean == CleanOnce \/ CleanTwice
SpecClean == InitClean /\ [][NextClean]_vars

InitLabel ==
    /\ CleanIdle /\ InitLabelRun /\ RecordIdle /\ BuildPostIdle
    /\ NormIdle /\ ReshapeIdle /\ ShardIdle
NextLabel == LoadLabelMap \/ ResolveLabels
SpecLabel == InitLabel /\ [][NextLabel]_vars

InitRecord ==
    /\ CleanIdle /\ LabelIdle /\ InitRecordRun /\ BuildPostIdle
    /\ NormIdle /\ ReshapeIdle /\ ShardIdle
NextRecord == ProcessOne
SpecRecord == InitRecord /\ [][NextRecord]_vars

InitBuildPost ==
    /\ CleanIdle /\ LabelIdle /\ RecordIdle /\ InitBuildPostRun
    /\ NormIdle /\ ReshapeIdle /\ ShardIdle
NextBuildPost == BuildBoth
SpecBuildPost == InitBuildPost /\ [][NextBuildPost]_vars

InitNorm ==
    /\ CleanIdle /\ LabelIdle /\ RecordIdle /\ BuildPostIdle
    /\ InitNormRun /\ ReshapeIdle /\ ShardIdle
NextNorm ==
    \/ NzNoShards
    \/ NzOpenShard
    \/ NzReadLine
    \/ NzBadLine
    \/ NzFinishShard
    \/ NzDone
SpecNorm == InitNorm /\ [][NextNorm]_vars

InitReshape ==
    /\ CleanIdle /\ LabelIdle /\ RecordIdle /\ BuildPostIdle
    /\ NormIdle /\ InitReshapeRun /\ ShardIdle
NextReshape ==
    \/ RsOpenFile
    \/ RsReadLine
    \/ RsBadLine
    \/ RsCloseFile
    \/ RsDone
SpecReshape == InitReshape /\ [][NextReshape]_vars

InitShard ==
    /\ CleanIdle /\ LabelIdle /\ RecordIdle /\ BuildPostIdle
    /\ NormIdle /\ ReshapeIdle /\ InitShardRun
NextShard == ShWriteShard \/ ShDone
SpecShard == InitShard /\ [][NextShard]_vars

\* a run of the Reshaper or a run of the Normalizer
InitStages == InitReshape \/ InitNorm
NextStages == NextReshape \/ NextNorm
SpecStages == InitStages /\ [][NextStages]_vars

----------------------------------------------------------------------------
(* Properties of the Normalizer *)

\* C1: drop accounting. For every shard process_shard has finished,
\* kept + skipped_empty + skipped_unknown_label is the number of lines read
\* from it and kept is the number of lines written; while a shard is being
\* read the three counters add up to the lines read so far; and the totals
\* of main are the sums of the per-shard stats.
C1_DropAccounting ==
    /\ \A k \in DOMAIN nz_stats :
          /\ nz_stats[k].kept + nz_stats[k].skipped_empty
                + nz_stats[k].skipped_unknown_label = Len(nz_fin[k])
          /\ nz_stats[k].kept = Len(nz_out[k])
    /\ nz_pc \in {"shard", "aborted"} =>
          nz_kept + nz_empty + nz_unknown = Len(nz_fin[Len(nz_fin)])
    /\ nz_totals.kept = SumSeq([k \in DOMAIN nz_stats |-> nz_stats[k].kept])
    /\ nz_totals.skipped_empty =
          SumSeq([k \in DOMAIN nz_stats |-> nz_stats[k].skipped_empty])
    /\ nz_totals.skipped_unknown_label =
          SumSeq([k \in DOMAIN nz_stats |-> nz_stats[k].skipped_unknown_label])

\* a finished run of two shards in which each of the three outcomes happened
C1_Witness ==
    /\ nz_pc = "done"
    /\ Len(nz_stats) = 2
    /\ nz_totals.kept = 1
    /\ nz_totals.skipped_empty = 1
    /\ nz_totals.skipped_unknown_label = 1

\* a step of the loop of process_shard that read one record
NzLineStep ==
    /\ nz_pc = "shard"
    /\ nz_pc' = "shard"
    /\ Len(nz_fin'[Len(nz_fin')]) = Len(nz_fin[Len(nz_fin)]) + 1

\* C8 as stated: a post without a lang_hint (absent, null or empty) is
\* dropped as an unknown label, whatever its text: skipped_unknown + 1,
\* skipped_empty and kept unchanged
C8_MissingLabelAlwaysUnknown ==
    [][(NzLineStep /\ ~Truthy(get(nz_last', "lang_hint"))) =>
          /\ nz_unknown' = nz_unknown + 1
          /\ nz_empty' = nz_empty
          /\ nz_kept' = nz_kept
          /\ nz_out' = nz_out]_vars

\* C8 amended: a post without a lang_hint is dropped as an unknown label
\* when its cleaned text is not empty, and as an empty post (skipped_empty
\* + 1, skipped_unknown unchanged) when its cleaned text is empty; in both
\* cases nothing is written and kept is unchanged
C8_MissingLabelAfterText ==
    [][(NzLineStep /\ ~Truthy(get(nz_last', "lang_hint"))) =>
          /\ nz_kept' = nz_kept
          /\ nz_out' = nz_out
          /\ IF normalize_text(TextOf(nz_last').chars) # <<>>
             THEN nz_unknown' = nz_unknown + 1 /\ nz_empty' = nz_empty
             ELSE nz_empty' = nz_empty + 1 /\ nz_unknown' = nz_unknown]_vars

\* a post with text and without a lang_hint has been dropped as unknown
C8_Witness ==
    /\ nz_pc = "shard"
    /\ nz_last = MkPost({StrV(<<"a">>)}, {})
    /\ nz_unknown = 1
    /\ nz_empty = 0
    /\ nz_kept = 0

\* s.split(c)
RECURSIVE SplitOn(_, _, _)
SplitOn(s, c, cur) ==
    IF s = <<>> THEN <<cur>>
    ELSE IF Head(s) = c THEN <<cur>> \o SplitOn(Tail(s), c, <<>>)
    ELSE SplitOn(Tail(s), c, Append(cur, Head(s)))

\* t is clean: no invisible character, no whitespace but single inner
\* spaces, no raw URL
IsCleaned(t) ==
    /\ \A i \in 1..Len(t) : t[i] \notin {ZWSP, NBSP, TAB, LF}
    /\ t # <<>> => t[1] # " " /\ t[Len(t)] # " "
    /\ \A i \in 1..(Len(t) - 1) : ~(t[i] = " " /\ t[i + 1] = " ")
    /\ \A i \in 1..Len(t) : URL_RE_match(SubSeq(t, i, Len(t))) = 0

\* C5: every record the Normalizer writes (regex splitter) has the non-empty
\* cleaned text, a non-empty lang taken from the label map under the
\* trimmed lowercase hint, no lang_hint unless keep_hint is set, and sents
\* that splits on newline into at least one fragment, each non-empty after
\* trimming, whose join with single spaces is text
C5_WrittenRecord ==
    (rc_pc = "done" /\ rc_res.outcome = "kept") =>
        LET rec   == rc_res.rec
            text  == rec["text"].chars
            frags == SplitOn(rec["sents"].chars, LF, <<>>)
            key   == lower(strip(str(rc_post["lang_hint"])))
        IN  /\ text # <<>>
            /\ text = normalize_text(rc_post["text"].chars)
            /\ IsCleaned(text)
            /\ key \in DOMAIN rc_map
            /\ rec["lang"] = rc_map[key]
            /\ Truthy(rec["lang"])
            /\ IF rc_keep
               THEN rec["lang_hint"] = rc_post["lang_hint"]
               ELSE "lang_hint" \notin DOMAIN rec
            /\ Len(frags) >= 1
            /\ \A i \in DOMAIN frags : strip(frags[i]) # <<>>
            /\ join(<<" ">>, frags) = text

\* a written record of two sentences whose text had a tab between them
C5_Witness ==
    /\ rc_pc = "done"
    /\ rc_res.outcome = "kept"
    /\ rc_post["text"].chars = <<".", TAB, "a">>
    /\ rc_res.rec["sents"].chars = <<".", LF, "a">>
    /\ ~rc_keep

\* C7: cleaning is idempotent: normalize_text(normalize_text(t)) =
\* normalize_text(t)
C7_CleanIdempotent == cl_pc = "twice" => cl_twice = cl_once

\* an input with a URL, a zero-width space and a whitespace run, cleaned twice
C7_Witness ==
    /\ cl_pc = "twice"
    /\ cl_in = HTTP \o <<"a">> \o <<ZWSP>> \o <<TAB>>
    /\ cl_once = URL_TOKEN

\* C6: the result of map_label_to_nllb depends only on trim(lower(label)):
\* two labels with the same trimmed lowercase form resolve to the same
\* result, the empty and the whitespace-only label included
C6_LabelDependsOnNormalForm ==
    lb_pc = "resolved" =>
        (strip(lower(lb_L1)) = strip(lower(lb_L2)) => lb_r1 = lb_r2)

----------------------------------------------------------------------------
(* Properties of the Reshaper *)

\* the places <<file, line>> of the posts written in the run
RsPlaces == UNION {{<<k, j>> : j \in DOMAIN rs_out[k]} : k \in DOMAIN rs_out}

PostAt(p) == rs_out[p[1]][p[2]]

Prefix(role) == IF role = "question" THEN <<"q", ":">> ELSE <<"r", ":">>

PrefixMatchesRole(post) ==
    /\ post.role \in {"question", "response"}
    /\ StartsWith(post.id, Prefix(post.role))
    /\ Len(post.id) > 2

\* C2 as stated: no two posts written in a run share an id, and every id
\* starts with "q:" for a question and "r:" for a response
C2_IdsUnique ==
    /\ \A p \in RsPlaces : PrefixMatchesRole(PostAt(p))
    /\ \A p1, p2 \in RsPlaces : p1 # p2 => PostAt(p1).id # PostAt(p2).id

\* the id of post is the role prefix and the string form of the side's id
\* in one of the records read from the post's file
IdFromSource(post, k) ==
    /\ post.role \in DOMAIN rs_m
    /\ "id" \in DOMAIN rs_m[post.role]
    /\ \E j \in DOMAIN rs_fin[k] :
          post.id = Prefix(post.role)
                    \o str(get(rs_fin[k][j], rs_m[post.role]["id"]))

\* C2 amended: every id is "q:" for a question and "r:" for a response
\* followed by the string form of the side's source id, and two posts
\* written in a run share an id only when they have the same role
C2_IdsUniqueAcrossRoles ==
    /\ \A p \in RsPlaces :
          PrefixMatchesRole(PostAt(p)) /\ IdFromSource(PostAt(p), p[1])
    /\ \A p1, p2 \in RsPlaces :
          PostAt(p1).id = PostAt(p2).id => PostAt(p1).role = PostAt(p2).role

\* a record whose two sides carry the same raw id has been written as two
\* posts with different ids
C2_Witness ==
    /\ rs_pc = "done"
    /\ \E p1, p2 \in RsPlaces :
          /\ PostAt(p1).id = <<"q", ":", "4", "2">>
          /\ PostAt(p2).id = <<"r", ":", "4", "2">>
          /\ PostAt(p1).role = "question"
          /\ PostAt(p2).role = "response"

LacksKey(m) ==
    \/ ~({"question", "response", "thread_id"} \subseteq DOMAIN m)
    \/ \E side \in {"question", "response"} :
          side \in DOMAIN m /\ ~(SideKeys \subseteq DOMAIN m[side])

\* C10 as stated: with a column map that lacks a recognized key, no run
\* that read a record completes, whatever the records hold
C10_MissingKeyAlwaysFatal ==
    (LacksKey(rs_m) /\ count_in > 0) => rs_pc # "done"

\* the side of rec makes build_post look up a key the column map lacks
RequestsMissingKey(rec, side, m) ==
    \/ side \notin DOMAIN m
    \/ /\ side \in DOMAIN m
       /\ \/ "content" \notin DOMAIN m[side]
          \/ /\ "content" \in DOMAIN m[side]
             /\ ~IsBlank(get(rec, m[side]["content"]))
             /\ \/ "id" \notin DOMAIN m[side]
                \/ /\ "id" \in DOMAIN m[side]
                   /\ ~IsBlank(get(rec, m[side]["id"]))
                   /\ \/ "thread_id" \notin DOMAIN m
                      \/ ~(SideKeys \subseteq DOMAIN m[side])

\* the places <<file, line>> of the records read in the run
RsReadPlaces == UNION {{<<k, j>> : j \in DOMAIN rs_fin[k]} : k \in DOMAIN rs_fin}

RsLastRead == <<Len(rs_fin), Len(rs_fin[Len(rs_fin)])>>

\* C10 amended: a missing key is fatal when a record requests it. The side
\* entry and its content key are requested by every record, the id key by a
\* side with non-blank content, the other keys by a side with non-blank
\* content and id. The run aborts with a KeyError at the first record that
\* requests a missing key, and a run whose records request none completes.
C10_MissingKeyFatalWhenRequested ==
    /\ rs_err = "KeyError" => rs_pc = "aborted" /\ LacksKey(rs_m)
    /\ \A p \in RsReadPlaces :
          (\E side \in {"question", "response"} :
              RequestsMissingKey(rs_fin[p[1]][p[2]], side, rs_m))
          <=> (rs_err = "KeyError" /\ p = RsLastRead)

\* a run that completed although the column map lacks the question id key
C10_Witness ==
    /\ rs_pc = "done"
    /\ count_in > 0
    /\ rs_m = WithoutSideKey(FullMap, "question", "id")

----------------------------------------------------------------------------
(* Properties of build_post *)

\* a content or id value is missing: absent, null, or empty or
\* whitespace-only after string conversion
IsMissing(v) == v.kind = "null" \/ strip(str(v)) = <<>>

\* C3: for each side, build_post yields no post when the side's content or
\* id is missing, and exactly one post when both are present, numeric and
\* boolean values such as the id 0 included
C3_DropCorrectness ==
    bp_pc = "built" =>
        /\ IF IsMissing(get(bp_rec, "q_text")) \/ IsMissing(get(bp_rec, "q_id"))
           THEN bp_q.status = "None"
           ELSE bp_q.status = "post"
        /\ IF IsMissing(get(bp_rec, "r_text")) \/ IsMissing(get(bp_rec, "r_id"))
           THEN bp_r.status = "None"
           ELSE bp_r.status = "post"

----------------------------------------------------------------------------
(* Properties of a run that aborts on a line that does not parse *)

\* the lines the Normalizer writes for the records read from one shard
RECURSIVE NormLines(_, _, _)
NormLines(recs, label_map, keep_hint) ==
    IF recs = <<>> THEN <<>>
    ELSE LET res == process_record(Head(recs), label_map, keep_hint)
         IN  (IF res.outcome = "kept" THEN <<res.rec>> ELSE <<>>)
             \o NormLines(Tail(recs), label_map, keep_hint)

\* the lines the Reshaper writes for the records read from one shard
RECURSIVE ReshapeLines(_, _)
ReshapeLines(recs, m) ==
    IF recs = <<>> THEN <<>>
    ELSE reshape_line(Head(recs), m).posts \o ReshapeLines(Tail(recs), m)

NzParseAbort == nz_pc = "aborted"
RsParseAbort == rs_pc = "aborted" /\ rs_err = "JSONDecodeError"

\* C9 as stated: after an abort on a line of shard k that does not parse,
\* the output files of the shards before k are complete and in place, and
\* there is no output file for shard k at its final path
C9_NoPartialOutput ==
    /\ NzParseAbort =>
          /\ Len(nz_out) = nz_i
          /\ \A k \in 1..nz_i : nz_out[k] = NormLines(nz_fin[k], nz_map, nz_keep)
    /\ RsParseAbort =>
          /\ Len(rs_out) = rs_i
          /\ \A k \in 1..rs_i : rs_out[k] = ReshapeLines(rs_fin[k], rs_m)

\* C9 amended: after such an abort the output files of the shards before k
\* are complete and in place, and the output file of shard k is at its
\* final path holding the lines written for the records before the failing
\* line
C9_PartialOutputLeft ==
    /\ NzParseAbort =>
          /\ Len(nz_out) = nz_i + 1
          /\ \A k \in 1..(nz_i + 1) :
                nz_out[k] = NormLines(nz_fin[k], nz_map, nz_keep)
    /\ RsParseAbort =>
          /\ Len(rs_out) = rs_i + 1
          /\ \A k \in 1..(rs_i + 1) :
                rs_out[k] = ReshapeLines(rs_fin[k], rs_m)

\* the Reshaper aborted in its second file after writing two posts to it,
\* with a first file of two posts in place
C9_Witness ==
    /\ RsParseAbort
    /\ rs_i = 1
    /\ Len(rs_out[1]) = 2
    /\ Len(rs_out[2]) = 2

----------------------------------------------------------------------------
(* Properties of the Sharder *)

Ceil(n, k) == (n + k - 1) \div k

DigitValue(c) == CHOOSE d \in 0..9 : DigitChar(d) = c

RECURSIVE ParseDigits(_)
ParseDigits(s) ==
    IF s = <<>> THEN 0
    ELSE ParseDigits(SubSeq(s, 1, Len(s) - 1)) * 10 + DigitValue(s[Len(s)])

\* name is shard_NNNNN.jsonl with NNNNN the five-digit form of n
IsShardName(name, n) ==
    /\ Len(name) = 17
    /\ SubSeq(name, 1, 6) = <<"s", "h", "a", "r", "d", "_">>
    /\ SubSeq(name, 12, 17) = <<".", "j", "s", "o", "n", "l">>
    /\ \A i \in 7..11 : \E d \in 0..9 : name[i] = DigitChar(d)
    /\ ParseDigits(SubSeq(name, 7, 11)) = n

\* the shards' lines in shard-index, then line order
ShardLines == Flatten([k \in DOMAIN sh_names |-> sh_files[sh_names[k]]])

ShardsWellFormed ==
    /\ Len(sh_names) = shard_idx
    /\ Cardinality(DOMAIN sh_files) = shard_idx
    /\ \A k \in DOMAIN sh_names : IsShardName(sh_names[k], k - 1)
    /\ ShardLines = [k \in DOMAIN sh_src |-> dumps(sh_src[k])]
    /\ \A k \in DOMAIN sh_names :
          Len(sh_files[sh_names[k]]) =
              IF k < Len(sh_names) \/ Len(sh_src) = 0
              THEN Min(sh_chunk, Len(sh_src))
              ELSE Len(sh_src) - (k - 1) * sh_chunk

\* C4 as stated: a source of N rows read in batches of K gives exactly
\* ceil(N / K) shards, named shard_00000.jsonl, shard_00001.jsonl, ... in
\* batch order, whose lines in order are the source rows in order
C4_ShardingComplete ==
    sh_pc = "done" =>
        /\ shard_idx = Ceil(Len(sh_src), sh_chunk)
        /\ ShardsWellFormed

\* C4 amended: a source of N >= 1 rows gives exactly ceil(N / K) shards, and
\* a source with a header and no rows gives one shard, shard_00000.jsonl,
\* without lines; the names and the order of the lines are as stated
C4_ShardingCompleteNonEmpty ==
    sh_pc = "done" =>
        /\ shard_idx = IF Len(sh_src) = 0 THEN 1
                       ELSE Ceil(Len(sh_src), sh_chunk)
        /\ ShardsWellFormed

\* five rows in chunks of two: shards of two, two and one rows
C4_Witness ==
    /\ sh_pc = "done"
    /\ Len(sh_src) = 5
    /\ sh_chunk = 2
    /\ shard_idx = 3
    /\ Len(sh_files[ShardName(2)]) = 1

====
